---- MODULE Spec2Model ----
(***************************************************************************)
(* quantum.py: explicit Euler integration of the 2D Schrodinger equation   *)
(* with dissipation, its start-up grids and its paced render/step loop.    *)
(*                                                                         *)
(* Numbers.  The program computes in float64; the model computes exactly.  *)
(* An array of the program is an array of integers together with a scale:  *)
(*   - the wave function F is [num, den2]: the cell values are             *)
(*     num[c][x][y] / sqrt(den2)  (den2 = 0 stands for a non-finite field);*)
(*   - the dissipation grid B is [num, den]: cell values num[x][y] / den;  *)
(*   - the potential grid V holds integers.                                *)
(* Rounding of float64 is outside the model.                               *)
(*                                                                         *)
(* Time.  One tick is 1/30000 s, so dt = 0.0001 s is 3 ticks and 1/fps is  *)
(* 1000 ticks; time.time() is the variable now.                            *)
(***************************************************************************)
EXTENDS Integers, Sequences, FiniteSets, TLC

VARIABLES
  pc,         \* position of the program
  F,          \* wave function, quantum.py:54-59, 94-95
  V,          \* potential grid, quantum.py:62-64
  B,          \* dissipation grid, quantum.py:68-75
  i,          \* loop index of the dissipation loop, quantum.py:70
  dFdt,       \* quantum.py:93, as [num, den] (see Derivative)
  start,      \* quantum.py:82
  last_draw,  \* quantum.py:80, 89
  key,        \* quantum.py:87
  img,        \* quantum.py:86
  elapsed,    \* quantum.py:98
  video,      \* frames written by recorder.write, quantum.py:90
  now,        \* the wall clock read by time.time()
  keyq,       \* key events the window system holds for cv2.waitKey
  shown,      \* the "Solution" window: frames displayed, and when the last was
  iter,       \* iterations of the while loop entered so far
  steps,      \* integration steps completed so far (lines 93-95)
  out         \* result of the operator applied by the operator specification

vars == <<pc, F, V, B, i, dFdt, start, last_draw, key, img, elapsed, video,
          now, keyq, shown, iter, steps, out>>

-----------------------------------------------------------------------------
(* Program constants *)

fps == 30
hbar == 1
\* mass = 0.1 = MassNum / MassDen
MassNum == 1
MassDen == 10
alph == -((hbar * hbar * MassDen) \div (2 * MassNum))
Lx == 50
Ly == 50
bthick == 10
record == FALSE
KeyEsc == 27
Vwall == 50

\* dt = 0.0001 = 1 / DtInv
DtInv == 10000
\* cv2.waitKey's result when no key event arrived
NoKey == -1

\* One second in ticks; dt and 1/fps in ticks.
TicksPerSecond == 1000 * fps
DtTicks == TicksPerSecond \div DtInv
FrameTicks == TicksPerSecond \div fps

-----------------------------------------------------------------------------
(* Bounds of the model *)

\* Side of the grids of the loop specification.
LoopL == 3
\* Side of the grids the operators are applied to.
OpsL == 5
\* Iterations of the simulation loop.
MaxIter == 2
\* Key events held by the window system.
MaxKeys == 1
\* Single ticks the clock may add up within one frame period.
MaxRun == 1
\* Frame periods the clock may jump.
MaxLong == 1
\* dt as the Euler weight is 1 / EulerDen (with the program's DtInv the
\* numerators leave TLC's 32-bit integers in the second step).
EulerDen == 2

\* First reading of the clock, in ticks (time.time() is seconds since 1970,
\* far beyond 1/fps).
Epoch == 2 * FrameTicks

-----------------------------------------------------------------------------
(* Arrays *)

NRows(G) == Cardinality(DOMAIN G)
NCols(G) == Cardinality(DOMAIN G[0])

\* np.zeros((lx, ly))
zeros(lx, ly) == [x \in 0..(lx - 1) |-> [y \in 0..(ly - 1) |-> 0]]

RECURSIVE SumN(_, _)
SumN(f, n) == IF n = 0 THEN 0 ELSE f[n - 1] + SumN(f, n - 1)

\* Sum of the squares of all entries of a (2, lx, ly) array.
SumSq(A) ==
  LET h == NRows(A[0])
      w == NCols(A[0])
      cell(k) == A[k \div (h * w)][(k % (h * w)) \div w][k % w]
  IN  SumN([k \in 0..(2 * h * w - 1) |-> cell(k) * cell(k)], 2 * h * w)

ArrScale(k, A) ==
  [c \in DOMAIN A |-> [x \in DOMAIN A[c] |-> [y \in DOMAIN A[c][x] |->
     k * A[c][x][y]]]]

ArrAdd(A, C) ==
  [c \in DOMAIN A |-> [x \in DOMAIN A[c] |-> [y \in DOMAIN A[c][x] |->
     A[c][x][y] + C[c][x][y]]]]

\* G*A for a (lx, ly) grid G and a (2, lx, ly) array A (numpy broadcasting).
GridMul(G, A) ==
  [c \in DOMAIN A |-> [x \in DOMAIN A[c] |-> [y \in DOMAIN A[c][x] |->
     G[x][y] * A[c][x][y]]]]

-----------------------------------------------------------------------------
(* Computational tools, quantum.py:38-40 *)

\* cv2's BORDER_REFLECT_101 (the default border of cv2.Laplacian):
\* gfedcb|abcdefgh|gfedcba.
Reflect101(p, len) ==
  IF len = 1 THEN 0
  ELSE IF p < 0 THEN -p
  ELSE IF p >= len THEN 2 * (len - 1) - p
  ELSE p

\* Variant: cv2's BORDER_REPLICATE, aaaaaa|abcdefgh|hhhhhhh.
LaplacianBorderReplicate(p, len) ==
  IF p < 0 THEN 0 ELSE IF p >= len THEN len - 1 ELSE p

BorderDefault(p, len) == Reflect101(p, len)

\* cv2.Laplacian(G, cv2.CV_64F) with ksize = 1: the kernel
\* [[0,1,0],[1,-4,1],[0,1,0]] applied with the default border.
Laplacian(G) ==
  LET h == NRows(G)
      w == NCols(G)
  IN  [x \in DOMAIN G |-> [y \in DOMAIN G[x] |->
         G[BorderDefault(x - 1, h)][y] + G[BorderDefault(x + 1, h)][y]
       + G[x][BorderDefault(y - 1, w)] + G[x][BorderDefault(y + 1, w)]
       - 4 * G[x][y]]]

claplacian(A) == [c \in 0..1 |-> Laplacian(A[c])]

Neg(G) == [x \in DOMAIN G |-> [y \in DOMAIN G[x] |-> -G[x][y]]]

\* Variant: the product with i, (-F[1], F[0]).
over_jTimesJ(A) == [c \in 0..1 |-> IF c = 0 THEN Neg(A[1]) ELSE A[0]]

over_j(A) == [c \in 0..1 |-> IF c = 0 THEN A[1] ELSE Neg(A[0])]

\* Variant: the field is left as it is.
normalizeStale(Fld) == Fld

\* F / npl.norm(F).  The norm of Fld is sqrt(SumSq(Fld.num) / Fld.den2), so
\* the quotient has the cells Fld.num / sqrt(SumSq(Fld.num)); 0/0 and x/0 of
\* numpy give a non-finite field.
normalize(Fld) ==
  IF Fld.den2 = 0 \/ SumSq(Fld.num) = 0
  THEN [num |-> Fld.num, den2 |-> 0]
  ELSE [num |-> Fld.num, den2 |-> SumSq(Fld.num)]

\* The L2 norm of the field is 1.
UnitNorm(Fld) == Fld.den2 > 0 /\ SumSq(Fld.num) = Fld.den2

-----------------------------------------------------------------------------
(* Input arrays *)

\* The (2, l, l) array that holds a at cell (c, x, y) and 0 elsewhere.
Impulse(l, c, x, y, a) ==
  [cc \in 0..1 |-> [xx \in 0..(l - 1) |-> [yy \in 0..(l - 1) |->
     IF cc = c /\ xx = x /\ yy = y THEN a ELSE 0]]]

\* The (2, l, l) array that holds a + b*i at cell (x, y) and 0 elsewhere.
Point(l, x, y, a, b) ==
  [cc \in 0..1 |-> [xx \in 0..(l - 1) |-> [yy \in 0..(l - 1) |->
     IF xx = x /\ yy = y THEN (IF cc = 0 THEN a ELSE b) ELSE 0]]]

OpsInputs ==
  { Point(OpsL, x, y, a, b) :
      x \in 0..(OpsL - 1), y \in 0..(OpsL - 1), a \in -1..1, b \in -1..1 }

\* The variables a specification leaves alone.
Idle == "-"

-----------------------------------------------------------------------------
(* The simulation loop, quantum.py:78-100 *)

LoopWall ==
  [x \in 0..(LoopL - 1) |-> [y \in 0..(LoopL - 1) |->
     IF y = 1 /\ x # 1 THEN 1 ELSE 0]]

LoopBorder ==
  [x \in 0..(LoopL - 1) |-> [y \in 0..(LoopL - 1) |-> IF y = 0 THEN 1 ELSE 0]]

\* Start-up data of the loop specification: a field (before line 59
\* normalizes it), a potential grid and a dissipation grid.
LoopConfigs ==
  { [F |-> Point(LoopL, 1, 1, 1, 0), V |-> zeros(LoopL, LoopL),
     B |-> [num |-> zeros(LoopL, LoopL), den |-> 1]],
    [F |-> Point(LoopL, 0, 0, 1, 0), V |-> LoopWall,
     B |-> [num |-> zeros(LoopL, LoopL), den |-> 1]],
    [F |-> Point(LoopL, 0, 1, 0, 1), V |-> LoopWall,
     B |-> [num |-> LoopBorder, den |-> 1]] }

NoWindow == [n |-> 0, at |-> 0, iter |-> 0, steps |-> 0]

\* State at line 81: F normalized (line 59), V and B built, last_draw = 0
\* (line 80), nothing displayed in the "Solution" window yet.
Init ==
  /\ pc = "start"
  /\ \E c \in LoopConfigs :
       /\ F = normalize([num |-> c.F, den2 |-> 1])
       /\ V = c.V
       /\ B = c.B
  /\ i = Idle
  /\ dFdt = Idle
  /\ start = 0
  /\ last_draw = 0
  /\ key = NoKey
  /\ img = Idle
  /\ elapsed = 0
  /\ video = <<>>
  /\ now = Epoch
  /\ keyq = <<>>
  /\ shown = NoWindow
  /\ iter = 0
  /\ steps = 0
  /\ out = Idle

\* line 82: start = time.time()
Start ==
  /\ pc = "start"
  /\ iter < MaxIter
  /\ start' = now
  /\ iter' = iter + 1
  /\ pc' = "check"
  /\ UNCHANGED <<F, V, B, i, dFdt, last_draw, key, img, elapsed, video, now,
                 keyq, shown, steps, out>>

\* Variant: >= in place of >.
DueInclusive == now - last_draw >= FrameTicks

\* time.time() - last_draw > 1/fps
Due == now - last_draw > FrameTicks

\* line 85: if time.time() - last_draw > 1/fps
DrawCheck ==
  /\ pc = "check"
  /\ pc' = IF Due THEN "render" ELSE "derive"
  /\ UNCHANGED <<F, V, B, i, dFdt, start, last_draw, key, img, elapsed, video,
                 now, keyq, shown, iter, steps, out>>

\* Variant: any key quits.
QuitOnAnyKey(k) == k # NoKey

\* key == 27
Quit(k) == k = KeyEsc

\* cv2.waitKey(1): the oldest pending key event, or -1
waitKey == IF keyq = <<>> THEN NoKey ELSE Head(keyq)

\* lines 86-88: img = cdisp("Solution", F); key = cv2.waitKey(1);
\* if key == 27: break.  Hue and value of the image depend on F up to a
\* positive factor only, so the numerators stand for the image.
Render ==
  /\ pc = "render"
  /\ img' = F.num
  /\ shown' = [n |-> shown.n + 1, at |-> now, iter |-> iter, steps |-> steps]
  /\ key' = waitKey
  /\ keyq' = IF keyq = <<>> THEN keyq ELSE Tail(keyq)
  /\ pc' = IF Quit(key') THEN "stopped" ELSE "stamp"
  /\ UNCHANGED <<F, V, B, i, dFdt, start, last_draw, elapsed, video, now,
                 iter, steps, out>>

\* Variant: an iteration that rendered goes on to the pacing.
StampSkipsStep ==
  /\ pc = "stamp"
  /\ last_draw' = now
  /\ video' = IF record THEN Append(video, img) ELSE video
  /\ pc' = "pace"
  /\ UNCHANGED <<F, V, B, i, dFdt, start, key, img, elapsed, now, keyq,
                 shown, iter, steps, out>>

\* lines 89-90: last_draw = time.time(); if record: recorder.write(img)
Stamp ==
  /\ pc = "stamp"
  /\ last_draw' = now
  /\ video' = IF record THEN Append(video, img) ELSE video
  /\ pc' = "derive"
  /\ UNCHANGED <<F, V, B, i, dFdt, start, key, img, elapsed, now, keyq,
                 shown, iter, steps, out>>

\* over_j((alph*claplacian(F) + V*F)/hbar) - B*F, as [num, den]: the cells
\* of dFdt are num / (den * sqrt(F.den2)).
Derivative(Fld, Vg, Bg) ==
  [num |-> ArrAdd(ArrScale(Bg.den,
                           over_j(ArrAdd(ArrScale(alph, claplacian(Fld.num)),
                                         GridMul(Vg, Fld.num)))),
                  ArrScale(-hbar, GridMul(Bg.num, Fld.num))),
   den |-> hbar * Bg.den]

\* F + dFdt*dt with dt = 1/EulerDen, over the common denominator.
EulerSum(Fld, D) ==
  [num  |-> ArrAdd(ArrScale(D.den * EulerDen, Fld.num), D.num),
   den2 |-> Fld.den2 * (D.den * EulerDen) * (D.den * EulerDen)]

\* Variant: V*F is computed in place, in V.
DeriveInPlace ==
  /\ pc = "derive"
  /\ dFdt' = Derivative(F, V, B)
  /\ F' = EulerSum(F, dFdt')
  /\ V' = [x \in DOMAIN V |-> [y \in DOMAIN V[x] |-> V[x][y] * F.num[0][x][y]]]
  /\ pc' = "renorm"
  /\ UNCHANGED <<B, i, start, last_draw, key, img, elapsed, video, now,
                 keyq, shown, iter, steps, out>>

\* lines 93-94: dFdt = over_j((alph*claplacian(F) + V*F)/hbar) - B*F;
\* F = F + dFdt*dt
Derive ==
  /\ pc = "derive"
  /\ dFdt' = Derivative(F, V, B)
  /\ F' = EulerSum(F, dFdt')
  /\ pc' = "renorm"
  /\ UNCHANGED <<V, B, i, start, last_draw, key, img, elapsed, video, now,
                 keyq, shown, iter, steps, out>>

\* line 95: F = normalize(F)
Renorm ==
  /\ pc = "renorm"
  /\ F' = normalize(F)
  /\ steps' = steps + 1
  /\ pc' = "pace"
  /\ UNCHANGED <<V, B, i, dFdt, start, last_draw, key, img, elapsed, video, now,
                 keyq, shown, iter, out>>

\* Variant: time.sleep(dt).
SleepFullStep(e) == IF e < DtTicks THEN DtTicks ELSE 0

\* The time slept at lines 99-100 for elapsed = e: dt - e if e < dt, else
\* none.
SleepFor(e) == IF e < DtTicks THEN DtTicks - e ELSE 0

\* lines 98-100: elapsed = time.time() - start;
\* if elapsed < dt: time.sleep(dt - elapsed)
Pace ==
  /\ pc = "pace"
  /\ elapsed' = now - start
  /\ now' = now + SleepFor(elapsed')
  /\ pc' = "start"
  /\ UNCHANGED <<F, V, B, i, dFdt, start, last_draw, key, img, video, keyq,
                 shown, iter, steps, out>>

\* The wall clock advances by one tick, or by a whole frame period, while
\* the program runs.
Tick ==
  /\ pc # "stopped"
  /\ \/ /\ (now - Epoch) % FrameTicks < MaxRun
        /\ now' = now + 1
     \/ /\ (now - Epoch) \div FrameTicks < MaxLong
        /\ now' = now + FrameTicks
  /\ UNCHANGED <<pc, F, V, B, i, dFdt, start, last_draw, key, img, elapsed,
                 video, keyq, shown, iter, steps, out>>

\* The user presses a key while the program runs.
PressKey ==
  /\ pc # "stopped"
  /\ Len(keyq) < MaxKeys
  /\ \E k \in {KeyEsc, 97} : keyq' = Append(keyq, k)
  /\ UNCHANGED <<pc, F, V, B, i, dFdt, start, last_draw, key, img, elapsed,
                 video, now, shown, iter, steps, out>>

Next ==
  \/ Start \/ DrawCheck \/ Render \/ Stamp \/ Derive \/ Renorm \/ Pace
  \/ Tick \/ PressKey

Spec == Init /\ [][Next]_vars

-----------------------------------------------------------------------------
(* Properties of the simulation loop *)

\* C1: in every state after an integration step has completed (lines 93-95
\* done, the next line 94 not yet executed) the field F has unit L2 norm:
\* the sum over both channels and all cells of the squared components is 1.
C1_UnitNormAfterStep ==
  (steps > 0 /\ pc # "renorm") => UnitNorm(F)

\* A first step has completed from a field of norm 1 whose Euler sum
\* F + dFdt*dt had a squared norm other than 1, and F has norm 1 again.
C1_Witness ==
  /\ pc = "pace"
  /\ steps = 1
  /\ UnitNorm(F)
  /\ SumSq(F.num) # (dFdt.den * EulerDen) * (dFdt.den * EulerDen)

\* C2, as stated: every iteration that was entered has done exactly one
\* integration step when it ends, whatever the quit query returned.
C2_StepInEveryIteration ==
  pc \in {"start", "stopped"} => steps = iter

\* C2, amended: an iteration that does not stop on the quit key does exactly
\* one integration step, rendered or not (the step is done when the pacing
\* starts, not before); the iteration that reads the quit key ends the loop
\* without a step.
C2_StepUnlessQuit ==
  /\ pc \in {"start", "pace"} => steps = iter
  /\ pc \in {"check", "render", "stamp", "derive", "renorm"} => steps = iter - 1
  /\ pc = "stopped" => steps = iter - 1

\* Two iterations have ended, the first rendered and the second did not,
\* and each has done its step.
C2_Witness ==
  pc = "start" /\ iter = 2 /\ steps = 2 /\ shown.n = 1

\* C3: the loop stops only in the render branch, when the quit query issued
\* with the display returns the quit key; once stopped there is no further
\* display, integration step, timestamp update or sleep.
C3_QuitOnlyAtRender ==
  /\ [][(pc # "stopped" /\ pc' = "stopped") =>
          (pc = "render" /\ shown'.n = shown.n + 1 /\ key' = KeyEsc)]_vars
  /\ [][(pc # "render" /\ pc # "stopped") => pc' # "stopped"]_vars
  /\ [][pc = "stopped" =>
          (pc' = "stopped" /\ UNCHANGED <<F, shown, steps, last_draw, now>>)]_vars

\* The quit key was pressed after the first frame and took effect at the
\* second one, in the second iteration, after one integration step.
C3_Witness ==
  pc = "stopped" /\ key = KeyEsc /\ iter = 2 /\ shown.n = 2 /\ steps = 1

\* C6: no step of the loop changes V or B, and the integration step (lines
\* 93-95) changes nothing of the simulation but F and its derivative dFdt.
C6_GridsReadOnly ==
  /\ [][V' = V /\ B' = B]_vars
  /\ [][(pc \in {"derive", "renorm"}) =>
          (UNCHANGED <<V, B, start, last_draw, key, img, elapsed, video, shown>>)]_vars

\* Two integration steps were done on nonzero grids V and B.
C6_Witness ==
  /\ steps = 2
  /\ V = LoopWall
  /\ B.num = LoopBorder
  /\ F.num # Point(LoopL, 0, 1, 0, 1)

\* C7: the pacing at the end of an iteration sleeps dt - elapsed, a positive
\* time, if elapsed < dt and does not sleep otherwise, so that every
\* completed iteration spans at least dt.
C7_Pacing ==
  /\ [][(pc = "pace" /\ pc' # "pace") =>
          /\ pc' = "start"
          /\ elapsed' = now - start
          /\ elapsed' < DtTicks =>
               (now' - now = DtTicks - elapsed' /\ now' > now)
          /\ elapsed' >= DtTicks => now' = now
          /\ steps' = steps]_vars
  /\ []((pc = "start" /\ iter > 0) => now - start >= DtTicks)

\* An iteration took one tick and slept the remaining two of dt.
C7_Witness ==
  pc = "start" /\ iter > 0 /\ elapsed = 1 /\ now - start = DtTicks

\* C8: a frame is displayed exactly when the clock read at line 85 exceeds
\* last_draw by more than 1/fps; last_draw changes only at line 89, in an
\* iteration that rendered and did not stop; the first iteration renders;
\* consecutive displays are more than 1/fps apart with one integration step
\* per iteration between them.
C8_RenderCadence ==
  /\ [][(pc = "check" /\ pc' # "check") =>
          (pc' = "render" <=> now - last_draw > FrameTicks)]_vars
  /\ [][last_draw' # last_draw =>
          (pc = "stamp" /\ shown.iter = iter /\ last_draw' = now)]_vars
  /\ []((iter >= 1 /\ pc \notin {"check", "render"}) =>
          (shown.n >= 1 /\ (iter = 1 => shown.iter = 1)))
  /\ [][shown' # shown =>
          /\ pc = "render"
          /\ shown'.n = shown.n + 1
          /\ shown.n > 0 =>
               /\ shown'.at - shown.at > FrameTicks
               /\ shown'.steps - shown.steps = shown'.iter - shown.iter]_vars

\* A second frame was displayed, one iteration and one step after the first.
C8_Witness ==
  shown.n = 2 /\ shown.iter = 2 /\ shown.steps = 1

-----------------------------------------------------------------------------
(* The computational tools applied to given arrays *)

InitOps ==
  /\ pc = "ops"
  /\ \E A \in OpsInputs : F = [num |-> A, den2 |-> 1]
  /\ out = Idle
  /\ V = Idle /\ B = Idle /\ i = Idle /\ dFdt = Idle
  /\ start = 0 /\ last_draw = 0 /\ key = NoKey /\ img = Idle /\ elapsed = 0
  /\ video = <<>> /\ now = Epoch /\ keyq = <<>> /\ shown = NoWindow
  /\ iter = 0 /\ steps = 0

\* out = over_j(F)
ApplyOverJ ==
  /\ pc = "ops"
  /\ out' = over_j(F.num)
  /\ pc' = "over_j"
  /\ UNCHANGED <<F, V, B, i, dFdt, start, last_draw, key, img, elapsed, video,
                 now, keyq, shown, iter, steps>>

\* out = claplacian(F)
ApplyLaplacian ==
  /\ pc = "ops"
  /\ out' = claplacian(F.num)
  /\ pc' = "claplacian"
  /\ UNCHANGED <<F, V, B, i, dFdt, start, last_draw, key, img, elapsed, video,
                 now, keyq, shown, iter, steps>>

NextOps == ApplyOverJ \/ ApplyLaplacian

SpecOps == InitOps /\ [][NextOps]_vars

\* C4, as stated: over_j(F) holds i*(a + b*i) in every cell: real part -b,
\* imaginary part a.
C4_TimesI ==
  pc = "over_j" =>
    \A x \in DOMAIN out[0] : \A y \in DOMAIN out[0][x] :
      /\ out[0][x][y] = -F.num[1][x][y]
      /\ out[1][x][y] = F.num[0][x][y]

\* C4, amended: over_j(F) holds (a + b*i)/i = -i*(a + b*i) in every cell:
\* real part b, imaginary part -a.
C4_OverI ==
  pc = "over_j" =>
    \A x \in DOMAIN out[0] : \A y \in DOMAIN out[0][x] :
      /\ out[0][x][y] = F.num[1][x][y]
      /\ out[1][x][y] = -F.num[0][x][y]

\* over_j was applied to a field with 1 - i in cell (1, 1), and gave -1 - i.
C4_Witness ==
  /\ pc = "over_j"
  /\ F.num[0][1][1] = 1 /\ F.num[1][1][1] = -1
  /\ out[0][1][1] = -1 /\ out[1][1][1] = -1

Interior(G, x, y) ==
  0 < x /\ x < NRows(G) - 1 /\ 0 < y /\ y < NCols(G) - 1

Adjacent(x, y, xx, yy) ==
  \/ (xx = x /\ (yy = y - 1 \/ yy = y + 1))
  \/ (yy = y /\ (xx = x - 1 \/ xx = x + 1))

\* F is 1 in channel c at the interior cell (x, y) and 0 elsewhere.
UnitImpulseAt(c, x, y) ==
  /\ Interior(F.num[0], x, y)
  /\ F.num = Impulse(NRows(F.num[0]), c, x, y, 1)

\* C5, as stated: the Laplacian of a unit impulse at an interior cell is -4
\* at the cell, +1 at its four neighbours and 0 at every other cell.
C5_Stencil ==
  pc = "claplacian" =>
    \A c \in 0..1 : \A x \in DOMAIN out[0] : \A y \in DOMAIN out[0][x] :
      UnitImpulseAt(c, x, y) =>
        \A cc \in 0..1 : \A xx \in DOMAIN out[0] : \A yy \in DOMAIN out[0][xx] :
          out[cc][xx][yy] =
            IF cc # c THEN 0
            ELSE IF xx = x /\ yy = y THEN -4
            ELSE IF Adjacent(x, y, xx, yy) THEN 1
            ELSE 0

\* C5, amended: the Laplacian of a unit impulse at an interior cell is -4 at
\* the cell, +1 at each of its four neighbours that is not a boundary cell,
\* +2 at each that is, and 0 at every other cell.
C5_StencilReflect ==
  pc = "claplacian" =>
    \A c \in 0..1 : \A x \in DOMAIN out[0] : \A y \in DOMAIN out[0][x] :
      UnitImpulseAt(c, x, y) =>
        \A cc \in 0..1 : \A xx \in DOMAIN out[0] : \A yy \in DOMAIN out[0][xx] :
          out[cc][xx][yy] =
            IF cc # c THEN 0
            ELSE IF xx = x /\ yy = y THEN -4
            ELSE IF Adjacent(x, y, xx, yy)
                 THEN (IF Interior(out[0], xx, yy) THEN 1 ELSE 2)
            ELSE 0

\* The Laplacian of the impulse at (1, 2) was taken: 2 at the boundary
\* neighbour (0, 2), 1 at the inner neighbour (2, 2), 0 at the diagonal
\* neighbour (0, 1).
C5_Witness ==
  /\ pc = "claplacian"
  /\ UnitImpulseAt(0, 1, 2)
  /\ out[0][1][2] = -4 /\ out[0][0][2] = 2 /\ out[0][2][2] = 1
  /\ out[0][0][1] = 0

-----------------------------------------------------------------------------
(* The start-up grids, quantum.py:61-76 *)

XSizes == {Lx - 10, Lx - 5, Lx}
YSizes == {Ly - 10, Ly - 5, Ly}

\* The indices of a slice lo:hi of an axis of length n.
Slice(lo, hi, n) == {k \in 0..(n - 1) : lo <= k /\ k < hi}

\* G[rows, cols] = v
SetBlock(G, rows, cols, v) ==
  [x \in DOMAIN G |-> [y \in DOMAIN G[x] |->
     IF x \in rows /\ y \in cols THEN v ELSE G[x][y]]]

\* Variant: int(Ly/2).
vl_aHalf == NCols(V) \div 2

\* line 63: vl_a = int(Ly/2.5)
vl_a == (2 * NCols(V)) \div 5

\* line 63: vl_b = int(Ly/2.5)+2
vl_b == vl_a + 2

InitGrids ==
  /\ pc = "wall1"
  /\ \E lx \in XSizes, ly \in YSizes : V = zeros(lx, ly)
  /\ B = Idle /\ i = Idle
  /\ F = Idle /\ out = Idle /\ dFdt = Idle
  /\ start = 0 /\ last_draw = 0 /\ key = NoKey /\ img = Idle /\ elapsed = 0
  /\ video = <<>> /\ now = Epoch /\ keyq = <<>> /\ shown = NoWindow
  /\ iter = 0 /\ steps = 0

\* line 64, first target: V[:18, vl_a:vl_b] = 50
WallTop ==
  /\ pc = "wall1"
  /\ V' = SetBlock(V, Slice(0, 18, NRows(V)), Slice(vl_a, vl_b, NCols(V)), Vwall)
  /\ pc' = "wall2"
  /\ UNCHANGED <<F, B, i, dFdt, start, last_draw, key, img, elapsed, video,
                 now, keyq, shown, iter, steps, out>>

\* line 64, second target: V[22:29, vl_a:vl_b] = 50
WallMiddle ==
  /\ pc = "wall2"
  /\ V' = SetBlock(V, Slice(22, 29, NRows(V)), Slice(vl_a, vl_b, NCols(V)), Vwall)
  /\ pc' = "wall3"
  /\ UNCHANGED <<F, B, i, dFdt, start, last_draw, key, img, elapsed, video,
                 now, keyq, shown, iter, steps, out>>

\* line 64, third target: V[33:, vl_a:vl_b] = 50
WallBottom ==
  /\ pc = "wall3"
  /\ V' = SetBlock(V, Slice(33, NRows(V), NRows(V)),
                   Slice(vl_a, vl_b, NCols(V)), Vwall)
  /\ pc' = "zeroB"
  /\ UNCHANGED <<F, B, i, dFdt, start, last_draw, key, img, elapsed, video,
                 now, keyq, shown, iter, steps, out>>

\* lines 68-70: B = np.zeros((Lx, Ly)); for i in xrange(bthick).  The cells
\* of B are num / den with den = bthick^3.
ZeroB ==
  /\ pc = "zeroB"
  /\ B' = [num |-> zeros(NRows(V), NCols(V)), den |-> bthick * bthick * bthick]
  /\ i' = 0
  /\ pc' = "top"
  /\ UNCHANGED <<F, V, dFdt, start, last_draw, key, img, elapsed, video, now,
                 keyq, shown, iter, steps, out>>

\* Variant: s = 100*(i/bthick)**2.
RampSquare(j) == 100 * j * j * bthick

\* line 71: s = 100*(i/bthick)**3, as the numerator over bthick^3
Ramp(j) == 100 * j * j * j

\* line 72: B[bthick-1-i, :vl_a] = s
BorderTop ==
  /\ pc = "top"
  /\ B' = [B EXCEPT !.num = SetBlock(B.num, {bthick - 1 - i},
                                     Slice(0, vl_a, NCols(V)), Ramp(i))]
  /\ pc' = "bottom"
  /\ UNCHANGED <<F, V, i, dFdt, start, last_draw, key, img, elapsed, video, now,
                 keyq, shown, iter, steps, out>>

\* line 73: B[-(bthick-1-i)-1, :vl_a] = s
BorderBottom ==
  /\ pc = "bottom"
  /\ B' = [B EXCEPT !.num = SetBlock(B.num, {NRows(V) - (bthick - 1 - i) - 1},
                                     Slice(0, vl_a, NCols(V)), Ramp(i))]
  /\ pc' = "left"
  /\ UNCHANGED <<F, V, i, dFdt, start, last_draw, key, img, elapsed, video, now,
                 keyq, shown, iter, steps, out>>

\* line 74: B[:, bthick-1-i] = s, and the next i of line 70
BorderLeft ==
  /\ pc = "left"
  /\ B' = [B EXCEPT !.num = SetBlock(B.num, DOMAIN B.num,
                                     {bthick - 1 - i}, Ramp(i))]
  /\ i' = i + 1
  /\ pc' = IF i + 1 < bthick THEN "top" ELSE "built"
  /\ UNCHANGED <<F, V, dFdt, start, last_draw, key, img, elapsed, video, now,
                 keyq, shown, iter, steps, out>>

NextGrids ==
  \/ WallTop \/ WallMiddle \/ WallBottom
  \/ ZeroB \/ BorderTop \/ BorderBottom \/ BorderLeft

SpecGrids == InitGrids /\ [][NextGrids]_vars

\* The grids are built, with the program's dimensions.
Built == pc = "built" /\ NRows(V) = Lx /\ NCols(V) = Ly

Min2(a, b) == IF a < b THEN a ELSE b

\* C9, as stated: every cell at distance d < 10 from the nearest of the top,
\* bottom and left edges holds 100*((9 - d)/10)^3, every other cell 0.
C9_ThreeFullBands ==
  Built =>
    \A x \in 0..49 : \A y \in 0..49 :
      LET d == Min2(y, Min2(x, 49 - x))
      IN  IF d < 10
          THEN B.num[x][y] * 1000 = 100 * (9 - d) * (9 - d) * (9 - d) * B.den
          ELSE B.num[x][y] = 0

\* C9, amended: the left band covers the whole edge, the top and bottom
\* bands only the columns below 20; in these bands a cell at distance
\* d < 10 from the nearest of the three edges holds 100*((9 - d)/10)^3;
\* every other cell is 0.
C9_BandsLeftOfWall ==
  Built =>
    \A x \in 0..49 : \A y \in 0..49 :
      LET d == Min2(y, Min2(x, 49 - x))
      IN  IF y < 10 \/ (y < 20 /\ (x < 10 \/ x > 39))
          THEN B.num[x][y] * 1000 = 100 * (9 - d) * (9 - d) * (9 - d) * B.den
          ELSE B.num[x][y] = 0

\* B is built: 72.9 at the top edge up to column 19 and along the left
\* edge, 0 at the top edge from column 20 on and at the right edge.
C9_Witness ==
  /\ Built
  /\ B.den = 1000
  /\ B.num[0][19] = 72900 /\ B.num[0][20] = 0
  /\ B.num[25][0] = 72900 /\ B.num[25][9] = 0 /\ B.num[25][49] = 0
  /\ B.num[49][5] = 72900 /\ B.num[45][12] = 12500

\* C10: V is 50 at the cells with second index 20 or 21 and first index in
\* 0..17, 22..28 or 33..49, and 0 at every other cell.
C10_ThreeWalls ==
  Built =>
    \A x \in 0..49 : \A y \in 0..49 :
      V[x][y] = IF y \in {20, 21} /\ x \in (0..17) \cup (22..28) \cup (33..49)
                THEN 50 ELSE 0

\* V is built: 50 at the ends of the three segments, 0 in the two gaps and
\* beside the band.
C10_Witness ==
  /\ Built
  /\ V[0][20] = 50 /\ V[17][21] = 50 /\ V[22][20] = 50 /\ V[28][21] = 50
  /\ V[33][20] = 50 /\ V[49][21] = 50
  /\ V[18][20] = 0 /\ V[21][21] = 0 /\ V[29][20] = 0 /\ V[32][21] = 0
  /\ V[0][19] = 0 /\ V[0][22] = 0

====
